---- MODULE Spec2Model ----
(***************************************************************************)
(* kak-tree-sitter: the daemon of src/main.rs.                             *)
(*                                                                         *)
(* A daemon process creates its runtime directory, detaches, binds a       *)
(* Unix socket in the directory and serves one connection at a time:       *)
(* it reads the connection to end-of-stream, stops on an empty payload,    *)
(* and otherwise decodes the payload and, for a Highlight request, parses  *)
(* the file the request names and stores the tree under (session, buffer). *)
(* Dropping the Daemon value removes the runtime directory.  Without       *)
(* --daemonize the program is a client: it gives the rc commands to the    *)
(* editor session and sends one request to the daemon.                     *)
(***************************************************************************)
EXTENDS Integers, Sequences, FiniteSets, TLC

(***************************************************************************)
(* Bounds of the model.                                                    *)
(***************************************************************************)
\* Connections the clients open during one behaviour of the serving model.
MaxConns == 3
\* Daemon processes started on the same runtime directory in MultiSpec.
NumDaemons == 2
\* Connections the clients open during one behaviour of MultiSpec.
MultiConns == 1

\* Characters in a command given to the editor.
MaxCmdLen == 2

Procs == 1 .. NumDaemons

(***************************************************************************)
(* The values requests are built from.                                     *)
(***************************************************************************)
Sessions == {"s1", "s2"}
Buffers == {"b1", "b2"}
\* "rust" is known to the language registry, "klingon" is not.
LangNames == {"rust", "klingon"}
\* The buffer file the editor keeps writing, and a path that names no file.
BufferPath == "/tmp/f.rs"
MissingPath == "/tmp/gone.rs"
Paths == {BufferPath, MissingPath}
\* What the editor may have written to BufferPath.
Contents == {"fn f(){}", "fn g(){}"}

Keys == Sessions \X Buffers

(***************************************************************************)
(* request::Request and its textual wire form.  A payload is a sequence of *)
(* tokens <<type, name, value>>; the empty sequence is the empty payload.  *)
(***************************************************************************)
Highlight(session_name, buffer_name, lang, path) ==
    [kind |-> "Highlight", session_name |-> session_name,
     buffer_name |-> buffer_name, lang |-> lang, path |-> path]

Requests ==
    {Highlight(s, b, l, p) : s \in Sessions, b \in Buffers, l \in LangNames, p \in Paths}

Open == <<"{", "", "">>
Close == <<"}", "", "">>
Member(name, value) == <<"member", name, value>>
Junk == <<"junk", "", "">>
\* A byte that is not valid UTF-8.
BadByte == <<"0xff", "", "">>

RequiredFields == {"session", "buffer", "language", "path"}

\* An encoder that writes the buffer name under "session" and the session
\* name under "buffer".
encode_swapped(r) ==
    <<Open, Member("kind", r.kind), Member("session", r.buffer_name),
      Member("buffer", r.session_name), Member("language", r.lang),
      Member("path", r.path), Close>>

encode(r) ==
    <<Open, Member("kind", r.kind), Member("session", r.session_name),
      Member("buffer", r.buffer_name), Member("language", r.lang),
      Member("path", r.path), Close>>

\* The value of member `name` when the object has exactly one; "" otherwise.
Field(members, name) ==
    LET hits == {i \in 1 .. Len(members) : members[i][2] = name}
    IN  IF Cardinality(hits) = 1
        THEN members[CHOOSE i \in hits : TRUE][3]
        ELSE ""

NoRequest == Highlight("", "", "", "")

\* serde_json::from_str::<Request>: Ok(req) or Err(err).
decode(text) ==
    LET n == Len(text)
        members == IF n >= 2 THEN SubSeq(text, 2, n - 1) ELSE <<>>
        names == {members[i][2] : i \in 1 .. Len(members)}
        wellFormed ==
            /\ n >= 2
            /\ text[1] = Open
            /\ text[n] = Close
            /\ \A i \in 1 .. Len(members) : members[i][1] = "member"
            /\ Cardinality(names) = Len(members)
            /\ Field(members, "kind") = "Highlight"
            /\ RequiredFields \subseteq names
    IN  IF wellFormed
        THEN [ok |-> TRUE,
              req |-> Highlight(Field(members, "session"), Field(members, "buffer"),
                                Field(members, "language"), Field(members, "path"))]
        ELSE [ok |-> FALSE, req |-> NoRequest]

\* Requests whose strings are empty or read like parts of the wire form.
OddRequests ==
    {Highlight("", "", "", ""), Highlight("kind", "Highlight", "path", "}"),
     Highlight("session", "buffer", "language", "path")}

\* Payloads that decode to no Request.
Truncated == <<Open, Member("kind", "Highlight")>>
UnknownKind ==
    <<Open, Member("kind", "Edit"), Member("session", "s1"), Member("buffer", "b1"),
      Member("language", "rust"), Member("path", BufferPath), Close>>
MissingField ==
    <<Open, Member("kind", "Highlight"), Member("session", "s1"),
      Member("buffer", "b1"), Member("language", "rust"), Close>>
Malformed == {<<Junk>>, Truncated, UnknownKind, MissingField}

EmptyPayload == <<>>
InvalidText == <<BadByte>>

\* Everything a client may write before it closes its write side.
WireData == {encode(r) : r \in Requests} \cup Malformed \cup {EmptyPayload, InvalidText}

(***************************************************************************)
(* languages::get_lang: a language name to a grammar, "" when absent.      *)
(***************************************************************************)
NoLang == ""
get_lang(lang_str) == IF lang_str = "rust" THEN "tree-sitter-rust" ELSE NoLang

(***************************************************************************)
(* The Tree Cache: RequestHandler.trees, a set of <<key, tree>> entries.   *)
(***************************************************************************)
\* tree_sitter::Tree: the parse of `content` with `grammar`.
Tree(grammar, content) == <<grammar, content>>

\* A cache that forgets to replace: the old entry of the key stays.
insert_keep_old(trees, key, parsed) == trees \cup {<<key, parsed>>}

\* A cache keyed by the buffer name alone.
insert_by_buffer(trees, key, parsed) ==
    {e \in trees : e[1][2] # key[2]} \cup {<<key, parsed>>}

\* A cache that holds one tree: the new entry evicts every other.
insert_evict(trees, key, parsed) == {<<key, parsed>>}

\* HashMap::insert: the entry of `key` is replaced, the others are kept.
insert(trees, key, parsed) ==
    {e \in trees : e[1] # key} \cup {<<key, parsed>>}

EntriesOf(trees, key) == {e \in trees : e[1] = key}

(***************************************************************************)
(* The request handler of one daemon, as functions of the cache, the       *)
(* payload, the file system and what the parser library answers.  Each     *)
(* returns the cache afterwards, the number of files it read, whether it   *)
(* panicked (an unwrap() on an error), the lines it wrote to stderr and    *)
(* what became of the request.                                             *)
(***************************************************************************)
Result(trees, reads, panic, err, outcome, key, source) ==
    [trees |-> trees, reads |-> reads, panic |-> panic, err |-> err,
     outcome |-> outcome, key |-> key, source |-> source]

NoKey == <<"", "">>
\* source: the grammar and the text given to the parser.
NoSource == <<"", "">>

\* std::fs::read_to_string(path), with `disk` the content of BufferPath.
read_to_string(disk, path) ==
    IF path = BufferPath THEN [ok |-> TRUE, text |-> disk] ELSE [ok |-> FALSE, text |-> ""]

\* parse_buffer that forgets the tree of a buffer it can no longer parse.
parse_buffer_forget(trees, session, buffer, lang, path, disk, langOk, parseOk) ==
    LET key == <<session, buffer>>
        content == read_to_string(disk, path)
        source == <<lang, content.text>>
    IN  IF ~content.ok
        THEN Result(trees, 1, TRUE, <<"panic: read_to_string">>, "io_error", key, NoSource)
        ELSE IF ~langOk
        THEN Result(trees, 1, TRUE, <<"panic: set_language">>, "lang_error", key, NoSource)
        ELSE IF parseOk
        THEN Result(insert(trees, key, Tree(lang, content.text)), 1, FALSE, <<>>,
                    "parsed", key, source)
        ELSE Result({e \in trees : e[1] # key}, 1, FALSE, <<>>, "parse_none", key, source)

\* RequestHandler::parse_buffer.  langOk: Parser::set_language accepts the
\* grammar; parseOk: Parser::parse returns Some(tree).
parse_buffer(trees, session, buffer, lang, path, disk, langOk, parseOk) ==
    LET key == <<session, buffer>>
        content == read_to_string(disk, path)
        source == <<lang, content.text>>
    IN  IF ~content.ok
        THEN Result(trees, 1, TRUE, <<"panic: read_to_string">>, "io_error", key, NoSource)
        ELSE IF ~langOk
        THEN Result(trees, 1, TRUE, <<"panic: set_language">>, "lang_error", key, NoSource)
        ELSE IF parseOk
        THEN Result(insert(trees, key, Tree(lang, content.text)), 1, FALSE, <<>>,
                    "parsed", key, source)
        ELSE Result(trees, 1, FALSE, <<>>, "parse_none", key, source)

\* handle_highlight_req that reads the file before it resolves the language.
handle_highlight_req_read_first(trees, session, buffer, lang_str, path, disk, langOk, parseOk) ==
    LET lang == get_lang(lang_str)
        content == read_to_string(disk, path)
    IN  IF lang # NoLang
        THEN parse_buffer(trees, session, buffer, lang, path, disk, langOk, parseOk)
        ELSE IF ~content.ok
        THEN Result(trees, 1, TRUE, <<"panic: read_to_string">>, "io_error",
                    <<session, buffer>>, NoSource)
        ELSE Result(trees, 1, FALSE, <<>>, "no_lang", <<session, buffer>>, NoSource)

\* handle_highlight_req that keeps an empty tree for a buffer whose language
\* it does not know.
handle_highlight_req_placeholder(trees, session, buffer, lang_str, path, disk, langOk, parseOk) ==
    LET lang == get_lang(lang_str)
    IN  IF lang # NoLang
        THEN parse_buffer(trees, session, buffer, lang, path, disk, langOk, parseOk)
        ELSE Result(insert(trees, <<session, buffer>>, Tree(NoLang, "")), 0, FALSE, <<>>,
                    "no_lang", <<session, buffer>>, NoSource)

\* RequestHandler::handle_highlight_req.
handle_highlight_req(trees, session, buffer, lang_str, path, disk, langOk, parseOk) ==
    LET lang == get_lang(lang_str)
    IN  IF lang # NoLang
        THEN parse_buffer(trees, session, buffer, lang, path, disk, langOk, parseOk)
        ELSE Result(trees, 0, FALSE, <<>>, "no_lang", <<session, buffer>>, NoSource)

\* handle_request that gives up serving on a payload it cannot decode.
handle_request_strict(trees, request, disk, langOk, parseOk) ==
    LET d == decode(request)
    IN  IF d.ok
        THEN handle_highlight_req(trees, d.req.session_name, d.req.buffer_name,
                                  d.req.lang, d.req.path, disk, langOk, parseOk)
        ELSE Result(trees, 0, TRUE, <<"panic: cannot parse request">>, "decode_error",
                    NoKey, NoSource)

\* RequestHandler::handle_request.
handle_request(trees, request, disk, langOk, parseOk) ==
    LET d == decode(request)
    IN  IF d.ok
        THEN handle_highlight_req(trees, d.req.session_name, d.req.buffer_name,
                                  d.req.lang, d.req.path, disk, langOk, parseOk)
        ELSE Result(trees, 0, FALSE, <<"cannot parse request">>, "decode_error", NoKey, NoSource)

(***************************************************************************)
(* The command line (Cli) and the editor session (KakSession).  An          *)
(* Option<String> is <<>> for None and <<s>> for Some(s); a text is the     *)
(* sequence of its pieces.                                                 *)
(***************************************************************************)
None == <<>>
Some(x) == <<x>>
Option(S) == {None} \cup {Some(x) : x \in S}

ClientNames == {"c1"}

\* What --request may carry: an encoded request, text that is no request, and
\* the empty string.
CliRequests == {encode(Highlight("s1", "b1", "rust", BufferPath)), <<Junk>>, EmptyPayload}

\* Cli
Clis ==
    [kakoune : BOOLEAN, daemonize : BOOLEAN, session : Option(Sessions),
     client : Option(ClientNames), request : Option(CliRequests)]

\* The characters of a command: a plain one, a quote, a line end.
Chars == {"a", "'", "\n"}
\* Command strings, rc::rc_commands() among them.
Commands == UNION {[1 .. n -> Chars] : n \in 0 .. MaxCmdLen}

\* fmt_cmd that never wraps.
fmt_cmd_raw(client_name, cmd) == cmd \o <<"\n">>

\* KakSession::fmt_cmd
fmt_cmd(client_name, cmd) ==
    IF client_name # None
    THEN <<"eval -client ", client_name[1], " '">> \o cmd \o <<"'", "\n">>
    ELSE cmd \o <<"\n">>

\* main that looks for the request before it injects the rc.
after_parse_request_first(c) ==
    IF c.daemonize THEN "daemon"
    ELSE IF c.session = None THEN "missing session"
    ELSE IF c.request = None THEN "request"
    ELSE IF c.kakoune THEN "inject"
    ELSE "request"

\* main, after Cli::parse: where the flags send it.
after_parse(c) ==
    IF c.daemonize THEN "daemon"
    ELSE IF c.session = None THEN "missing session"
    ELSE IF c.kakoune THEN "inject"
    ELSE "request"

(***************************************************************************)
(* The state.                                                              *)
(***************************************************************************)
VARIABLES
    pc,          \* pc[p]: where daemon process p stands
    panicking,   \* panicking[p]: p is unwinding from a panic
    exitCode,    \* exitCode[p]: the exit code of p, -1 while it runs
    trees,       \* trees[p]: RequestHandler.trees of p
    backlog,     \* backlog[p]: connections waiting on p's listener, oldest first
    cur,         \* cur[p]: the connection p has accepted and is serving
    stderr,      \* stderr[p]: the lines p wrote to its standard error
    reads,       \* reads[p]: how many buffer files p has read
    prev,        \* prev[p]: what became of the request before the last one
    last,        \* last[p]: what became of the last request p handled
    accepted,    \* accepted[p]: the connections p accepted, in order
    dir,         \* the runtime directory exists
    files,       \* the names of the files in the runtime directory
    owner,       \* owner[n]: the process that created socket or pid, 0: a dead one
    locked,      \* locked[p]: p holds the lock of the pid file owner created
    todo,        \* todo[p]: entries remove_dir_all of p has still to unlink
    nConn,       \* connections opened so far
    quota,       \* connections the clients may still open
    cli,         \* the command line of the process started from the editor
    cpc,         \* where that process stands in main
    cexit,       \* its exit code, -1 while it runs
    editor,      \* what the editor sessions were given, in order
    cerr,        \* the lines the process wrote to its standard error
    mine         \* the connection send_request made and what it wrote

vars == <<pc, panicking, exitCode, trees, backlog, cur, stderr, reads, prev, last,
          accepted, dir, files, owner, locked, todo, nConn, quota,
          cli, cpc, cexit, editor, cerr, mine>>

procVars == <<pc, panicking, exitCode, locked>>
handlerVars == <<trees, stderr, reads, prev, last>>
connVars == <<backlog, cur, accepted, nConn, quota>>
dirVars == <<dir, files, owner, todo>>
cliVars == <<cli, cpc, cexit, editor, cerr, mine>>

\* The files of the runtime directory.
FileNames == {"socket", "stdout.txt", "stderr.txt", "pid"}
\* The files whose creator matters: a listener, a lock.
Owned == {"socket", "pid"}

NoConn == [id |-> 0, closed |-> FALSE, data |-> <<>>, ioerr |-> FALSE]
NoHist == [outcome |-> "none", key |-> NoKey, source |-> NoSource]
\* send_request has not connected.
NoSend == [id |-> 0, data |-> <<>>]
\* No process was started from the editor.
NoCli == [kakoune |-> FALSE, daemonize |-> FALSE, session |-> None, client |-> None,
          request |-> None]

\* p has constructed its Daemon value and not yet exited.
Bound(p) == pc[p] \in {"accept", "read", "handle", "drop", "unlink", "exit"}
\* p is in the loop of Daemon::run.
Serving(p) == pc[p] \in {"accept", "read", "handle"}

InitCommon ==
    /\ panicking = [p \in Procs |-> FALSE]
    /\ exitCode = [p \in Procs |-> -1]
    /\ trees = [p \in Procs |-> {}]
    /\ backlog = [p \in Procs |-> <<>>]
    /\ cur = [p \in Procs |-> NoConn]
    /\ stderr = [p \in Procs |-> <<>>]
    /\ reads = [p \in Procs |-> 0]
    /\ prev = [p \in Procs |-> NoHist]
    /\ last = [p \in Procs |-> NoHist]
    /\ accepted = [p \in Procs |-> <<>>]
    /\ locked = [p \in Procs |-> -1]
    /\ todo = [p \in Procs |-> {}]
    /\ owner = [n \in Owned |-> 0]
    /\ nConn = 0
    /\ cexit = -1
    /\ editor = <<>>
    /\ cerr = <<>>
    /\ mine = NoSend

\* One daemon; the directory of an earlier daemon that was killed may be there.
Init ==
    /\ InitCommon
    /\ cli = NoCli
    /\ cpc = "idle"
    /\ pc = [p \in Procs |-> IF p = 1 THEN "create_dir" ELSE "off"]
    /\ \E stale \in BOOLEAN :
          /\ dir = stale
          /\ files = IF stale THEN FileNames ELSE {}
    /\ quota = MaxConns

\* Several daemons started on the same, empty, location.
MultiInit ==
    /\ InitCommon
    /\ cli = NoCli
    /\ cpc = "idle"
    /\ pc = [p \in Procs |-> "create_dir"]
    /\ dir = FALSE
    /\ files = {}
    /\ quota = MultiConns

\* A daemon started on an empty location, or several starts on a location
\* where an earlier daemon was killed: its directory and its socket file are
\* still there and nobody listens.
RestartInit ==
    /\ InitCommon
    /\ cli = NoCli
    /\ cpc = "idle"
    /\ \E stale \in BOOLEAN :
          /\ pc = [p \in Procs |-> IF stale \/ p = 1 THEN "create_dir" ELSE "off"]
          /\ dir = stale
          /\ files = IF stale THEN FileNames ELSE {}
    /\ quota = MultiConns

\* A process started from the editor with some command line.  With
\* --daemonize it becomes daemon 1; otherwise a daemon may have been started.
CliInit ==
    /\ InitCommon
    /\ cli \in Clis
    /\ cpc = "main"
    /\ \E up \in BOOLEAN :
          pc = [p \in Procs |-> IF p = 1 /\ up /\ ~cli.daemonize THEN "create_dir" ELSE "off"]
    /\ dir = FALSE
    /\ files = {}
    /\ quota = IF cli.daemonize THEN MultiConns ELSE 0

(***************************************************************************)
(* start_daemon and Daemon::new.                                           *)
(***************************************************************************)
\* A panic before the Daemon value exists: nothing is dropped.
Panic(p, line) ==
    /\ pc' = [pc EXCEPT ![p] = "abort"]
    /\ panicking' = [panicking EXCEPT ![p] = TRUE]
    /\ stderr' = [stderr EXCEPT ![p] = Append(@, line)]

\* Each call of the startup can also fail for a reason outside the model
\* (permissions, a full disk, a path too long): `ok` is false then.

\* fs::create_dir_all(&daemon_dir).unwrap()
CreateDir(p) ==
    /\ pc[p] = "create_dir"
    /\ \E ok \in BOOLEAN :
          IF ok
          THEN /\ dir' = TRUE
               /\ pc' = [pc EXCEPT ![p] = "create_files"]
               /\ UNCHANGED <<panicking, stderr>>
          ELSE /\ Panic(p, "panic: create_dir_all")
               /\ UNCHANGED dir
    /\ UNCHANGED <<exitCode, locked, trees, reads, prev, last, connVars, files, owner, todo>>
    /\ UNCHANGED cliVars

\* File::create of stdout.txt and stderr.txt
CreateFiles(p) ==
    /\ pc[p] = "create_files"
    /\ \E ok \in BOOLEAN :
          IF ok /\ dir
          THEN /\ files' = files \cup {"stdout.txt", "stderr.txt"}
               /\ pc' = [pc EXCEPT ![p] = "daemonize"]
               /\ UNCHANGED <<panicking, stderr>>
          ELSE /\ Panic(p, "panic: File::create")
               /\ UNCHANGED files
    /\ UNCHANGED <<exitCode, locked, trees, reads, prev, last, connVars, dir, owner, todo>>
    /\ UNCHANGED cliVars

\* Some other live process holds the lock of the pid file `inode`.
LockHeld(p, inode) == \E q \in Procs \ {p} : locked[q] = inode /\ pc[q] # "exited"

\* Daemonize::start: creates the pid file if there is none and locks it
\* exclusively, without waiting.
Daemonize(p) ==
    /\ pc[p] = "daemonize"
    /\ LET inode == IF "pid" \in files THEN owner["pid"] ELSE p
       IN  \E ok \in BOOLEAN :
              IF ok /\ dir /\ ~LockHeld(p, inode)
              THEN /\ files' = files \cup {"pid"}
                   /\ owner' = [owner EXCEPT !["pid"] = inode]
                   /\ locked' = [locked EXCEPT ![p] = inode]
                   /\ pc' = [pc EXCEPT ![p] = "bind"]
                   /\ UNCHANGED <<panicking, stderr>>
              ELSE /\ Panic(p, "panic: daemon")
                   /\ UNCHANGED <<files, owner, locked>>
    /\ UNCHANGED <<exitCode, trees, reads, prev, last, connVars, dir, todo>>
    /\ UNCHANGED cliVars

\* Daemon::new that takes over a socket file it finds.
bind_replace(p) == dir

\* UnixListener::bind can succeed: the directory is there and the path is free.
bind(p) == dir /\ "socket" \notin files

\* Daemon::new
DaemonNew(p) ==
    /\ pc[p] = "bind"
    /\ \E ok \in BOOLEAN :
          IF ok /\ bind(p)
          THEN /\ files' = files \cup {"socket"}
               /\ owner' = [owner EXCEPT !["socket"] = p]
               /\ pc' = [pc EXCEPT ![p] = "accept"]
               /\ UNCHANGED <<panicking, stderr>>
          ELSE /\ Panic(p, "panic: bind")
               /\ UNCHANGED <<files, owner>>
    /\ UNCHANGED <<exitCode, locked, trees, reads, prev, last, connVars, dir, todo>>
    /\ UNCHANGED cliVars

(***************************************************************************)
(* The clients.                                                            *)
(***************************************************************************)
\* The daemon a connect to <runtime-dir>/socket reaches: 0 when none listens.
Listener ==
    IF dir /\ "socket" \in files /\ owner["socket"] \in Procs /\ Bound(owner["socket"])
    THEN owner["socket"] ELSE 0

\* UnixStream::connect of a client: the connection waits to be accepted.
Connect ==
    /\ quota > 0
    /\ Listener # 0
    /\ nConn' = nConn + 1
    /\ quota' = quota - 1
    /\ backlog' = [backlog EXCEPT ![Listener] = Append(@, nConn + 1)]
    /\ UNCHANGED <<procVars, handlerVars, cur, accepted, dirVars>>
    /\ UNCHANGED cliVars

\* The client of the connection p serves has written `data` and closes its
\* write side, or the connection fails under it.
ClientClose(p) ==
    /\ pc[p] = "read"
    /\ ~cur[p].closed
    /\ \E data \in WireData, ioerr \in BOOLEAN :
          /\ ioerr => data = EmptyPayload
          /\ cur[p].id = mine.id => data = mine.data
          /\ cur' = [cur EXCEPT ![p] = [@ EXCEPT !.closed = TRUE, !.data = data,
                                                 !.ioerr = ioerr]]
    /\ UNCHANGED <<procVars, handlerVars, backlog, accepted, nConn, quota, dirVars>>
    /\ UNCHANGED cliVars

(***************************************************************************)
(* Daemon::run                                                             *)
(***************************************************************************)
\* A listener that hands out the newest waiting connection first.
incoming_newest_first(queue) == queue[Len(queue)]

\* self.unix_listener.incoming(): the oldest waiting connection.
incoming(queue) == Head(queue)

\* The waiting connections without connection `id`.
Without(queue, id) == SelectSeq(queue, LAMBDA c : c # id)

\* for client in incoming(): `ok` is false when accept returns an error, and
\* the loop goes to the next connection.
Accept(p) ==
    /\ pc[p] = "accept"
    /\ backlog[p] # <<>>
    /\ LET id == incoming(backlog[p])
       IN  /\ backlog' = [backlog EXCEPT ![p] = Without(@, id)]
           /\ \E ok \in BOOLEAN :
                 IF ok
                 THEN /\ cur' = [cur EXCEPT ![p] = [NoConn EXCEPT !.id = id]]
                      /\ accepted' = [accepted EXCEPT ![p] = Append(@, id)]
                      /\ pc' = [pc EXCEPT ![p] = "read"]
                 ELSE UNCHANGED <<cur, accepted, pc>>
    /\ UNCHANGED <<panicking, exitCode, locked, handlerVars, nConn, quota, dirVars>>
    /\ UNCHANGED cliVars

\* A read that returns what has arrived so far.
read_returns_early(conn) == TRUE

\* client.read_to_string returns: the peer has closed its write side.
read_returns(conn) == conn.closed

\* A loop that takes no payload for the stop sentinel.
is_empty_never(request) == FALSE

\* request.is_empty()
is_empty(request) == request = EmptyPayload

\* read_to_string returns Err: an I/O error, or bytes that are not UTF-8.
read_failed(conn) == conn.ioerr \/ \E i \in 1 .. Len(conn.data) : conn.data[i] = BadByte

\* Daemon::run is left, by break or by a panic that unwinds through it.
LeaveRun(p, panic) ==
    /\ pc' = [pc EXCEPT ![p] = "drop"]
    /\ panicking' = [panicking EXCEPT ![p] = panic]

\* client.read_to_string(&mut request).unwrap(); if request.is_empty() { break }
Read(p) ==
    /\ pc[p] = "read"
    /\ read_returns(cur[p])
    /\ IF read_failed(cur[p])
       THEN /\ LeaveRun(p, TRUE)
            /\ stderr' = [stderr EXCEPT ![p] = Append(@, "panic: read_to_string")]
       ELSE IF is_empty(cur[p].data)
       THEN /\ LeaveRun(p, FALSE)
            /\ UNCHANGED stderr
       ELSE /\ pc' = [pc EXCEPT ![p] = "handle"]
            /\ UNCHANGED <<panicking, stderr>>
    /\ UNCHANGED <<exitCode, locked, trees, reads, prev, last, connVars, dirVars>>
    /\ UNCHANGED cliVars

\* req_handler.handle_request(request), to the end of the loop body.  `disk`
\* is what the editor last saved to BufferPath.
Handle(p) ==
    /\ pc[p] = "handle"
    /\ \E disk \in Contents, langOk \in BOOLEAN, parseOk \in BOOLEAN :
          LET r == handle_request(trees[p], cur[p].data, disk, langOk, parseOk)
          IN  /\ trees' = [trees EXCEPT ![p] = r.trees]
              /\ reads' = [reads EXCEPT ![p] = @ + r.reads]
              /\ stderr' = [stderr EXCEPT ![p] = @ \o r.err]
              /\ prev' = [prev EXCEPT ![p] = last[p]]
              /\ last' = [last EXCEPT ![p] =
                            [outcome |-> r.outcome, key |-> r.key, source |-> r.source]]
              /\ IF r.panic
                 THEN /\ LeaveRun(p, TRUE)
                      /\ UNCHANGED cur
                 ELSE /\ pc' = [pc EXCEPT ![p] = "accept"]
                      /\ cur' = [cur EXCEPT ![p] = NoConn]
                      /\ UNCHANGED panicking
    /\ UNCHANGED <<exitCode, locked, backlog, accepted, nConn, quota, dirVars>>
    /\ UNCHANGED cliVars

(***************************************************************************)
(* Drop for Daemon: std::fs::remove_dir_all(&self.daemon_dir), its result  *)
(* ignored.  The removal is one system call per entry, then one for the    *)
(* directory itself; the listener is closed after it, with the process.    *)
(***************************************************************************)
\* The locals of run are dropped (the RequestHandler with its trees, the
\* accepted connection), then the Daemon: the directory is opened and its
\* entries are listed.
DropStart(p) ==
    /\ pc[p] = "drop"
    /\ trees' = [trees EXCEPT ![p] = {}]
    /\ reads' = [reads EXCEPT ![p] = 0]
    /\ prev' = [prev EXCEPT ![p] = NoHist]
    /\ last' = [last EXCEPT ![p] = NoHist]
    /\ accepted' = [accepted EXCEPT ![p] = <<>>]
    /\ cur' = [cur EXCEPT ![p] = NoConn]
    /\ IF dir
       THEN /\ todo' = [todo EXCEPT ![p] = files]
            /\ pc' = [pc EXCEPT ![p] = "unlink"]
       ELSE /\ pc' = [pc EXCEPT ![p] = "exit"]
            /\ UNCHANGED todo
    /\ UNCHANGED <<panicking, exitCode, locked, stderr, backlog, nConn, quota,
                   dir, files, owner>>
    /\ UNCHANGED cliVars

\* One entry is unlinked: one that was listed, or one created since (the
\* listing may or may not show it).  A listed entry that is gone is skipped
\* or ends the removal with an error, depending on the library version.
DropUnlink(p) ==
    /\ pc[p] = "unlink"
    /\ \E n \in todo[p] \cup files :
          IF n \in files
          THEN /\ files' = files \ {n}
               /\ owner' = [m \in Owned |-> IF m = n THEN 0 ELSE owner[m]]
               /\ todo' = [todo EXCEPT ![p] = @ \ {n}]
               /\ UNCHANGED pc
          ELSE /\ UNCHANGED <<files, owner>>
               /\ \E abort \in BOOLEAN :
                     /\ pc' = [pc EXCEPT ![p] = IF abort THEN "exit" ELSE "unlink"]
                     /\ todo' = [todo EXCEPT ![p] = IF abort THEN {} ELSE @ \ {n}]
    /\ UNCHANGED <<panicking, exitCode, locked, handlerVars, connVars, dir>>
    /\ UNCHANGED cliVars

\* Every listed entry is gone: the directory is removed if it is empty.
DropRmdir(p) ==
    /\ pc[p] = "unlink"
    /\ todo[p] = {}
    /\ dir' = IF files = {} THEN FALSE ELSE dir
    /\ pc' = [pc EXCEPT ![p] = "exit"]
    /\ UNCHANGED <<panicking, exitCode, locked, handlerVars, connVars, files, owner, todo>>
    /\ UNCHANGED cliVars

\* The process ends: std::process::exit(0) in main, or 101 after a panic.
\* Its listener is closed and its lock of the pid file is released.
Exit(p) ==
    /\ pc[p] \in {"exit", "abort"}
    /\ pc' = [pc EXCEPT ![p] = "exited"]
    /\ exitCode' = [exitCode EXCEPT ![p] = IF panicking[p] THEN 101 ELSE 0]
    /\ locked' = [locked EXCEPT ![p] = -1]
    /\ UNCHANGED <<panicking, handlerVars, connVars, dirVars>>
    /\ UNCHANGED cliVars

(***************************************************************************)
(* main, send_request and KakSession::send of the process started from the *)
(* editor.  A panic in it unwinds through main and ends the process with    *)
(* code 101.                                                               *)
(***************************************************************************)
CliPanic(line) ==
    /\ cerr' = Append(cerr, line)
    /\ cexit' = 101
    /\ cpc' = "exited"

\* main, from Cli::parse to its first call.
CliMain ==
    /\ cpc = "main"
    /\ LET to == after_parse(cli)
       IN  IF to = "missing session"
           THEN /\ cerr' = Append(cerr, "missing session")
                /\ cexit' = 1
                /\ cpc' = "exited"
                /\ UNCHANGED pc
           ELSE /\ cpc' = to
                /\ pc' = IF to = "daemon" THEN [pc EXCEPT ![1] = "create_dir"] ELSE pc
                /\ UNCHANGED <<cerr, cexit>>
    /\ UNCHANGED <<panicking, exitCode, locked, handlerVars, connVars, dirVars,
                   cli, editor, mine>>

\* kak_sess.send(rc::rc_commands()): kak -p <session> is spawned and the
\* formatted commands are written to its standard input and flushed.
CliInject ==
    /\ cpc = "inject"
    /\ \E cmd \in Commands, spawned \in BOOLEAN, written \in BOOLEAN :
          IF ~spawned
          THEN CliPanic("panic: spawn") /\ UNCHANGED editor
          ELSE IF ~written
          THEN CliPanic("panic: write_all") /\ UNCHANGED editor
          ELSE /\ editor' = Append(editor, [session |-> cli.session[1],
                                            text |-> fmt_cmd(cli.client, cmd)])
               /\ cpc' = "request"
               /\ UNCHANGED <<cerr, cexit>>
    /\ UNCHANGED <<procVars, handlerVars, connVars, dirVars, cli, mine>>

\* if let Some(request) = cli.request { send_request(request) } else { exit(1) },
\* then the end of main.  send_request connects, writes the request and
\* drops the stream.
CliRequest ==
    /\ cpc = "request"
    /\ IF cli.request = None
       THEN /\ cerr' = Append(cerr, "no request")
            /\ cexit' = 1
            /\ cpc' = "exited"
            /\ UNCHANGED <<backlog, nConn, mine>>
       ELSE \E connected \in BOOLEAN, written \in BOOLEAN :
               IF ~connected \/ Listener = 0
               THEN /\ CliPanic("panic: connect")
                    /\ UNCHANGED <<backlog, nConn, mine>>
               ELSE /\ nConn' = nConn + 1
                    /\ backlog' = [backlog EXCEPT ![Listener] = Append(@, nConn + 1)]
                    /\ IF written
                       THEN /\ mine' = [id |-> nConn + 1, data |-> cli.request[1]]
                            /\ cexit' = 0
                            /\ cpc' = "exited"
                            /\ UNCHANGED cerr
                       ELSE /\ mine' = [id |-> nConn + 1, data |-> EmptyPayload]
                            /\ CliPanic("panic: write")
    /\ UNCHANGED <<procVars, handlerVars, cur, accepted, quota, dirVars, cli, editor>>

\* In daemon mode the process that was started ends: by a panic of the
\* start before it detached (code 101), or with code 0 when
\* Daemonize::start has detached the daemon from it.
CliDetach ==
    /\ cpc = "daemon"
    /\ pc[1] \notin {"off", "create_dir", "create_files", "daemonize"}
    /\ \E code \in {0, 101} :
          /\ code = 101 =>
                stderr[1] \in {<<"panic: create_dir_all">>, <<"panic: File::create">>,
                               <<"panic: daemon">>}
          /\ code = 0 =>
                stderr[1] \notin {<<"panic: create_dir_all">>, <<"panic: File::create">>}
          /\ cexit' = code
    /\ cpc' = "exited"
    /\ UNCHANGED <<procVars, handlerVars, connVars, dirVars, cli, editor, cerr, mine>>

(***************************************************************************)
(* The specifications.                                                     *)
(***************************************************************************)
DaemonStep(p) ==
    \/ CreateDir(p)
    \/ CreateFiles(p)
    \/ Daemonize(p)
    \/ DaemonNew(p)
    \/ Accept(p)
    \/ Read(p)
    \/ Handle(p)
    \/ DropStart(p)
    \/ DropUnlink(p)
    \/ DropRmdir(p)
    \/ Exit(p)

Next ==
    \/ \E p \in Procs : DaemonStep(p)
    \/ \E p \in Procs : ClientClose(p)
    \/ Connect

\* One daemon and its clients.
Spec == Init /\ [][Next]_vars

\* The steps of a daemon that has left Daemon::run: none waits for a client.
Shutdown(p) == DropStart(p) \/ DropUnlink(p) \/ DropRmdir(p) \/ Exit(p)

\* The daemon process is scheduled: once it has left the loop, it runs on to
\* its end.  No client has to act.
FairSpec == Spec /\ WF_vars(Shutdown(1))

\* Several daemons on the same runtime directory.
MultiSpec == MultiInit /\ [][Next]_vars

\* Starts repeated, one after or beside the other, where a killed daemon has
\* left its files.
RestartSpec == RestartInit /\ [][Next]_vars

CliNext ==
    \/ Next
    \/ CliMain
    \/ CliInject
    \/ CliRequest
    \/ CliDetach

\* One run of the program from its command line, with the daemon it starts
\* or talks to.
CliSpec == CliInit /\ [][CliNext]_vars

(***************************************************************************)
(* Properties.                                                             *)
(***************************************************************************)
\* The last two requests p handled were Highlight requests for the same key,
\* their language resolved, their files were read with different content, and
\* the second parse returned a tree.
Reparsed(p) ==
    /\ prev[p].outcome \in {"parsed", "parse_none"}
    /\ last[p].outcome = "parsed"
    /\ prev[p].key = last[p].key
    /\ prev[p].source # last[p].source

\* C1: after two successive Highlight requests for the same (session, buffer)
\* with different file content, the cache holds exactly one entry for the key,
\* and it is the tree of the second parse.
CacheReplacement ==
    \A p \in Procs :
        Reparsed(p) =>
            EntriesOf(trees[p], last[p].key)
                = {<<last[p].key, Tree(last[p].source[1], last[p].source[2])>>}

\* C1 happens: a key parsed twice in a row, with two contents.
CacheReplacementWitness ==
    \E p \in Procs : Reparsed(p) /\ prev[p].outcome = "parsed"

\* The key of the Highlight request p is about to handle, NoKey if the
\* payload decodes to none.
HandledKey(p) ==
    LET d == decode(cur[p].data)
    IN  IF d.ok THEN <<d.req.session_name, d.req.buffer_name>> ELSE NoKey

\* C2: handling a Highlight request for key (s, b) leaves the cache entry of
\* every other key as it was.
CacheIsolation ==
    [][\A p \in Procs :
          (pc[p] = "handle" /\ pc'[p] # "handle" /\ decode(cur[p].data).ok) =>
              \A k \in Keys \ {HandledKey(p)} :
                  EntriesOf(trees'[p], k) = EntriesOf(trees[p], k)]_vars

\* C2 happens: the same buffer is cached for two sessions, each with its own
\* tree, and the last request re-parsed one of them.
CacheIsolationWitness ==
    \E p \in Procs : \E b \in Buffers :
        /\ last[p].outcome = "parsed"
        /\ prev[p].outcome = "parsed"
        /\ last[p].key = <<"s1", b>>
        /\ EntriesOf(trees[p], <<"s1", b>>) # {}
        /\ EntriesOf(trees[p], <<"s2", b>>) # {}
        /\ \E e1 \in EntriesOf(trees[p], <<"s1", b>>), e2 \in EntriesOf(trees[p], <<"s2", b>>) :
              e1[2] # e2[2]

\* p finishes handling the payload it read: the step of Handle(p).
Handles(p) == pc[p] = "handle" /\ pc'[p] # "handle"

\* The request p is about to handle; NoRequest if the payload decodes to none.
HandledRequest(p) == decode(cur[p].data).req

\* C3: a Highlight request whose language the registry cannot resolve leaves
\* the cache as it was, reads no file, does not crash the handler, and the
\* loop goes on to accept the next connection.
UnknownLanguageNoOp ==
    [][\A p \in Procs :
          (/\ Handles(p)
           /\ decode(cur[p].data).ok
           /\ get_lang(HandledRequest(p).lang) = NoLang) =>
              /\ trees'[p] = trees[p]
              /\ reads'[p] = reads[p]
              /\ ~panicking'[p]
              /\ pc'[p] = "accept"]_vars

\* C3 happens: with a tree in the cache, a request for an unknown language
\* was handled and the next connection has been accepted.
UnknownLanguageWitness ==
    \E p \in Procs :
        /\ prev[p].outcome = "parsed"
        /\ last[p].outcome = "no_lang"
        /\ trees[p] # {}
        /\ pc[p] = "read"

\* C4: a non-empty payload that decodes to no Request is logged, leaves the
\* cache and the count of files read as they were, and the loop is back
\* where it accepts connections, as before the payload arrived.
DecodeFailureIsolation ==
    [][\A p \in Procs :
          (Handles(p) /\ ~decode(cur[p].data).ok) =>
              /\ stderr'[p] = Append(stderr[p], "cannot parse request")
              /\ trees'[p] = trees[p]
              /\ reads'[p] = reads[p]
              /\ ~panicking'[p]
              /\ pc'[p] = "accept"]_vars

\* C4 happens: after a payload that failed to decode, the request of a later
\* connection was parsed into the cache.
DecodeFailureWitness ==
    \E p \in Procs :
        /\ prev[p].outcome = "decode_error"
        /\ last[p].outcome = "parsed"
        /\ EntriesOf(trees[p], last[p].key) # {}
        /\ stderr[p] = <<"cannot parse request">>

\* C5: a Highlight request with a resolvable language whose file cannot be
\* read is a non-fatal error: the cache is unchanged and the daemon is back
\* where it accepts connections.
UnreadableFileNonFatal ==
    [][\A p \in Procs :
          (/\ Handles(p)
           /\ decode(cur[p].data).ok
           /\ get_lang(HandledRequest(p).lang) # NoLang
           /\ \A c \in Contents : ~read_to_string(c, HandledRequest(p).path).ok) =>
              /\ trees'[p] = trees[p]
              /\ ~panicking'[p]
              /\ pc'[p] = "accept"]_vars

\* C6: a failure while reading a connection's payload abandons that request
\* and the daemon stays in its serving loop.
ReadFailureNonFatal ==
    [][\A p \in Procs :
          (pc[p] = "read" /\ pc'[p] # "read" /\ read_failed(cur[p])) =>
              /\ ~panicking'[p]
              /\ pc'[p] = "accept"]_vars

\* p has left Daemon::run by the break of the stop sentinel.
Stopped(p) == pc[p] \in {"drop", "unlink", "exit", "exited"} /\ ~panicking[p]

\* q begins with the elements of s, in order.
IsPrefix(s, q) == Len(s) <= Len(q) /\ \A i \in 1 .. Len(s) : s[i] = q[i]

\* C7: an empty payload ends the serving loop; from then on no connection is
\* accepted, read or handled, nothing is put in the cache, and the daemon
\* goes on to remove the runtime directory and exit with code 0.
SentinelStops ==
    /\ [][\A p \in Procs :
             (/\ pc[p] = "read" /\ pc'[p] # "read"
              /\ ~read_failed(cur[p])
              /\ cur[p].data = EmptyPayload) =>
                 Stopped(p)']_vars
    /\ [][\A p \in Procs :
             Stopped(p) =>
                 /\ Stopped(p)'
                 /\ IsPrefix(backlog[p], backlog'[p])
                 /\ Len(accepted'[p]) <= Len(accepted[p])
                 /\ reads'[p] <= reads[p]
                 /\ trees'[p] \subseteq trees[p]]_vars
    /\ Stopped(1) ~> (pc[1] = "exited" /\ exitCode[1] = 0 /\ ~dir)

\* C7 happens: the daemon has exited with code 0 after a sentinel, the
\* directory is gone, and a connection that waited behind the sentinel was
\* never accepted.
SentinelStopsWitness ==
    \E p \in Procs :
        /\ pc[p] = "exited"
        /\ exitCode[p] = 0
        /\ ~dir
        /\ backlog[p] # <<>>

\* C8: a daemon that got as far as creating the runtime directory leaves no
\* runtime directory behind when it has ended, whatever ended it.
DirectoryRemovedAtExit ==
    \A p \in Procs :
        (pc[p] = "exited" /\ stderr[p] # <<"panic: create_dir_all">>) => ~dir

\* C9: the loop is sequential.  A connection is accepted only when the one
\* before it has been handled to the end, connections are accepted in the
\* order they arrived, and while the accepted client has not closed its write
\* side the daemon handles nothing and accepts nobody.
Sequential ==
    /\ [](\A p \in Procs :
             /\ \A i, j \in 1 .. Len(accepted[p]) : i < j => accepted[p][i] < accepted[p][j]
             /\ \A i \in 1 .. Len(accepted[p]), j \in 1 .. Len(backlog[p]) :
                   accepted[p][i] < backlog[p][j]
             /\ cur[p].id # 0 => cur[p].id = accepted[p][Len(accepted[p])])
    /\ [][\A p \in Procs :
             /\ Len(accepted'[p]) > Len(accepted[p]) => cur[p] = NoConn
             /\ (cur[p].id # 0 /\ ~cur[p].closed) =>
                   /\ pc'[p] = "read"
                   /\ accepted'[p] = accepted[p]
                   /\ backlog[p] # <<>> => IsPrefix(backlog[p], backlog'[p])
                   /\ trees'[p] = trees[p]
                   /\ reads'[p] = reads[p]
                   /\ last'[p] = last[p]]_vars

\* C9 happens: the daemon waits for its client to close while another
\* connection waits to be accepted, after an earlier request was handled.
SequentialWitness ==
    \E p \in Procs :
        /\ pc[p] = "read"
        /\ ~cur[p].closed
        /\ backlog[p] # <<>>
        /\ last[p].outcome # "none"

\* C10: at most one daemon has bound the socket and not yet exited, and a
\* start never binds while a socket file exists.
AtMostOneDaemon ==
    /\ [](Cardinality({p \in Procs : Bound(p)}) <= 1)
    /\ [][\A p \in Procs :
             (pc[p] = "bind" /\ pc'[p] # "bind" /\ "socket" \in files) =>
                 pc'[p] = "abort"]_vars

\* The socket file of a daemon that is no more: no process listens on it.
StaleSocket == dir /\ "socket" \in files /\ owner["socket"] = 0

\* C11: with a stale socket file in the runtime directory, bind fails and the
\* start is fatal.  The daemon never serves and handles nothing, the socket
\* file is neither removed nor replaced, the process exits with a non-zero
\* code, and every later start fails the same way while the file is there.
StaleSocketFatal ==
    /\ [][\A p \in Procs :
             (pc[p] = "bind" /\ pc'[p] # "bind" /\ StaleSocket) =>
                 /\ pc'[p] = "abort"
                 /\ panicking'[p]
                 /\ files' = files
                 /\ owner' = owner]_vars
    /\ [][StaleSocket => StaleSocket']_vars
    /\ [](StaleSocket =>
            \A p \in Procs :
                /\ ~Bound(p)
                /\ accepted[p] = <<>>
                /\ last[p] = NoHist
                /\ trees[p] = {}
                /\ pc[p] = "exited" => exitCode[p] # 0)

\* C11 happens: every start found the stale socket, failed at bind and has
\* exited; the socket file is still there.
StaleSocketWitness ==
    /\ StaleSocket
    /\ \A p \in Procs :
          /\ pc[p] = "exited"
          /\ stderr[p] = <<"panic: bind">>
          /\ exitCode[p] # 0

\* The requests that leave no tree: undecodable, of an unknown language, or
\* with a parse that returned nothing.
Fruitless == {"decode_error", "no_lang", "parse_none"}

\* C12: cache entries are never removed.  While the daemon lives, a key that
\* is in the cache stays in it whatever request comes next, and its tree
\* changes only when a request for that same key is parsed with success.
CacheNeverShrinks ==
    [][\A p \in Procs : \A k \in Keys :
          (pc[p] \in {"accept", "read", "handle"} /\ EntriesOf(trees[p], k) # {}) =>
              /\ EntriesOf(trees'[p], k) # {}
              /\ EntriesOf(trees'[p], k) # EntriesOf(trees[p], k) =>
                    /\ Handles(p)
                    /\ HandledKey(p) = k
                    /\ last'[p].outcome = "parsed"]_vars

\* C12 happens: a tree is still cached after two later requests that left no
\* tree, and the daemon serves on.
CacheNeverShrinksWitness ==
    \E p \in Procs :
        /\ prev[p].outcome \in Fruitless
        /\ last[p].outcome \in Fruitless
        /\ prev[p].outcome # last[p].outcome
        /\ trees[p] # {}
        /\ pc[p] = "accept"

\* C13: when the parser returns no tree for a Highlight request whose language
\* resolves and whose file is read, the cache is left as it was: a tree cached
\* for the key is kept, a key that was absent stays absent.
ParseNoneKeepsCache ==
    [][\A p \in Procs :
          (Handles(p) /\ last'[p].outcome = "parse_none") =>
              /\ decode(cur[p].data).ok
              /\ get_lang(HandledRequest(p).lang) # NoLang
              /\ reads'[p] = reads[p] + 1
              /\ ~panicking'[p]
              /\ trees'[p] = trees[p]]_vars

\* C13 happens: a key was parsed and cached, the file changed, the next parse
\* for the key returned nothing, and the cache still holds the first tree.
ParseNoneWitness ==
    \E p \in Procs :
        /\ prev[p].outcome = "parsed"
        /\ last[p].outcome = "parse_none"
        /\ prev[p].key = last[p].key
        /\ prev[p].source # last[p].source
        /\ EntriesOf(trees[p], last[p].key)
              = {<<last[p].key, Tree(prev[p].source[1], prev[p].source[2])>>}

\* C18: the cache of a daemon is empty when its loop begins, and an entry
\* appears in it only for the key of a Highlight request that was received,
\* whose language resolved, whose file was read and whose parse gave a tree:
\* the keys of the cache are keys of such requests.
CacheKeysFromRequests ==
    /\ [](\A p \in Procs : (~Bound(p) \/ accepted[p] = <<>>) => trees[p] = {})
    /\ [][\A p \in Procs : \A k \in Keys :
             (EntriesOf(trees[p], k) = {} /\ EntriesOf(trees'[p], k) # {}) =>
                 /\ Handles(p)
                 /\ decode(cur[p].data).ok
                 /\ HandledKey(p) = k
                 /\ get_lang(HandledRequest(p).lang) # NoLang
                 /\ reads'[p] = reads[p] + 1
                 /\ last'[p].outcome = "parsed"]_vars
    /\ [](\A p \in Procs : \A e \in trees[p] : e[1] \in Keys)

\* C18 happens: after three requests, of which only one was parsed, the cache
\* holds the key of that one and no other.
CacheKeysWitness ==
    \E p \in Procs : \E k \in Keys :
        /\ Len(accepted[p]) = 3
        /\ pc[p] = "accept"
        /\ {e[1] : e \in trees[p]} = {k}
        /\ prev[p].outcome = "parsed"
        /\ prev[p].key = k
        /\ last[p].outcome \in {"no_lang", "parse_none"}
        /\ last[p].key # k

\* C15: the round-trip law of the codec.  Decoding the encoding of a Request
\* gives that Request back, for every Highlight, and so the daemon handles
\* exactly the request a client encoded.
RoundTrip ==
    /\ \A r \in Requests \cup OddRequests : decode(encode(r)) = [ok |-> TRUE, req |-> r]
    /\ \A p \in Procs : \A r \in Requests :
          (pc[p] = "handle" /\ cur[p].data = encode(r)) =>
              /\ HandledRequest(p) = r
              /\ HandledKey(p) = <<r.session_name, r.buffer_name>>

\* C15 happens: the daemon has decoded an encoded request of a client and
\* parsed the file for the session and buffer the client named.
RoundTripWitness ==
    \E p \in Procs :
        /\ prev[p].outcome = "parsed"
        /\ prev[p].key = <<"s1", "b2">>
        /\ last[p].outcome = "parsed"
        /\ last[p].key = <<"s2", "b1">>
        /\ pc[p] = "handle"
        /\ cur[p].data = encode(Highlight("s2", "b2", "klingon", MissingPath))

\* C19: while a daemon is in its serving loop, the socket file it bound is
\* in the runtime directory, whatever other daemon processes do on the same
\* directory: start, fail to start, or remove the directory as they shut down.
SocketStaysWhileServing ==
    \A p \in Procs :
        Serving(p) => (dir /\ "socket" \in files /\ owner["socket"] = p)

\* C14: the exit code of the process is 1 when, in client mode, the session
\* or the request is missing, and 0 in every other case: client mode with
\* both given, daemon mode whatever happens.
ExitCodes ==
    cpc = "exited" =>
        cexit = IF ~cli.daemonize /\ (cli.session = None \/ cli.request = None)
                THEN 1 ELSE 0

\* C16: a delivery to the editor that fails (kak cannot be spawned, the write
\* to its input fails) is logged and the process goes on with its next step,
\* the request to the daemon; it does not end there.
DeliveryFailureSurvived ==
    [][(cpc = "inject" /\ cpc' # "inject" /\ editor' = editor) =>
          /\ cpc' = "request"
          /\ cexit' = -1
          /\ Len(cerr') = Len(cerr) + 1]_vars

\* C17: fmt_cmd gives, for every command, with a client c the command inside
\* eval -client c '...' and with no client the command as it is, and in both
\* cases ends it with one newline; this is the text the editor is given.
FormatContract ==
    /\ \A cmd \in Commands :
          /\ fmt_cmd(None, cmd) = cmd \o <<"\n">>
          /\ \A c \in ClientNames :
                LET text == fmt_cmd(Some(c), cmd)
                IN  /\ Len(text) = Len(cmd) + 5
                    /\ SubSeq(text, 1, 3) = <<"eval -client ", c, " '">>
                    /\ SubSeq(text, 4, Len(cmd) + 3) = cmd
                    /\ SubSeq(text, Len(cmd) + 4, Len(text)) = <<"'", "\n">>
    /\ \A i \in 1 .. Len(editor) :
          LET text == editor[i].text
          IN  /\ text[Len(text)] = "\n"
              /\ IF cli.client = None
                 THEN SubSeq(text, 1, Len(text) - 1) \in Commands
                 ELSE /\ SubSeq(text, 1, 3) = <<"eval -client ", cli.client[1], " '">>
                      /\ SubSeq(text, 4, Len(text) - 2) \in Commands
                      /\ text[Len(text) - 1] = "'"

\* C17 happens: the editor was given a command with a quote and a line end in
\* it, wrapped for a client.
FormatWitness ==
    /\ cli.client = Some("c1")
    /\ Len(editor) = 1
    /\ editor[1].text = <<"eval -client ", "c1", " '", "'", "\n", "'", "\n">>

\* C20: in client mode with a session and the kakoune flag, the rc commands
\* are given to the editor session before any request is sent to the daemon,
\* and also when no request is given (the process then exits with 1, after
\* the injection); a delivery that fails ends the process before anything is
\* sent.  Without a session the editor is given nothing and the daemon is
\* sent nothing.
InjectBeforeRequest ==
    /\ [](mine.id # 0 =>
            /\ cli.session # None
            /\ cli.kakoune =>
                  /\ Len(editor) = 1
                  /\ editor[1].session = cli.session[1])
    /\ []((/\ cpc = "exited" /\ ~cli.daemonize /\ cli.session # None
           /\ cli.kakoune /\ cli.request = None) =>
              \/ Len(editor) = 1 /\ cexit = 1 /\ cerr = <<"no request">>
              \/ editor = <<>> /\ cexit = 101
                    /\ cerr \in {<<"panic: spawn">>, <<"panic: write_all">>})
    /\ []((~cli.daemonize /\ cli.session = None) => (editor = <<>> /\ mine.id = 0))
    /\ [][editor' # editor => (mine.id = 0 /\ mine' = mine /\ cli.kakoune)]_vars

\* C20 happens, with a request: the rc was given to the session, then the
\* request was sent and the daemon has read it.
InjectThenRequestWitness ==
    /\ cli.kakoune
    /\ Len(editor) = 1
    /\ mine.id # 0
    /\ cexit = 0
    /\ pc[1] = "handle"
    /\ cur[1].id = mine.id
    /\ cur[1].data = cli.request[1]

====
